---- MODULE Spec2Model ----
(***************************************************************************)
(* SIPService (pkg/service/sip.go): the RPC-facing service that validates  *)
(* and persists SIP trunks and dispatch rules and forwards participant     *)
(* creation to the SIP peer.  Every request is a process; its position in  *)
(* the handler is proc[p].pc.  The store, the validators, the identifier   *)
(* generator and the psrpc client are collaborators outside the file and   *)
(* are modelled from their documented contract.                            *)
(***************************************************************************)
EXTENDS Integers, Sequences, FiniteSets, TLC

\* ------------------------------------------------------------------ bounds
NProcs == 2
MaxRequests == 2

Procs == 1..NProcs

\* ------------------------------------------------------- program constants
\* timeout := 30 * time.Second
DefaultTimeout == 30

\* utils.SIPTrunkPrefix, utils.SIPDispatchRulePrefix, the call ID's prefix
SIPTrunkPrefix == "ST_"
SIPDispatchRulePrefix == "SDR_"
SIPCallPrefix == "SCL_"

\* the empty string ID
NoID == <<>>
\* error values: nil is the empty tuple, an error is a tuple led by its kind
NoErr == <<>>
Err(kind) == <<kind>>
ErrSIPNotConnected == Err("sip not connected")
ErrTrunkRequired == Err("trunk info is required")
ErrTrunkIDNotEmpty == Err("trunk ID must be empty")
ErrDeprecatedRegex == Err("InboundNumbersRegex deprecated")
ErrStore == Err("store error")
ErrNotFound == Err("not found")
ErrBuild == Err("cannot build internal request")
ErrRemote == Err("remote error")
ErrRequestTimeout == Err("request timed out")
ErrCtxDone == Err("context done")

\* twirpAuthError(err)
twirpAuthError == Err("unauthenticated")

\* ------------------------------------------------------------------ inputs
\* Trunk shapes a request may carry: (allowed addresses, numbers); an empty
\* set is unrestricted.
TrunkShapes ==
    { [numbers |-> {}, addrs |-> {}],
      [numbers |-> {"n1"}, addrs |-> {"a1"}],
      [numbers |-> {"n2"}, addrs |-> {"a1"}] }

\* Dispatch rule shapes: (trunk IDs the rule applies to, inbound numbers).
RuleShapes ==
    { [trunkIds |-> {}, numbers |-> {}],
      [trunkIds |-> {"t1"}, numbers |-> {"n1"}],
      [trunkIds |-> {"t1"}, numbers |-> {"n2"}] }

\* Deadlines (time remaining at the start of the request) a caller may set.
Deadlines == {5, 35}
\* Amounts by which time advances in one step.
TickAmounts == {5, 30}

Guid(prefix, n) == <<prefix, n>>
TrunkIDs == { Guid(SIPTrunkPrefix, n) : n \in 1..MaxRequests }
RuleIDs == { Guid(SIPDispatchRulePrefix, n) : n \in 1..MaxRequests }

Trunk(id, kind, shape) ==
    [id |-> id, kind |-> kind, numbers |-> shape.numbers, addrs |-> shape.addrs]
Rule(id, shape) ==
    [id |-> id, trunkIds |-> shape.trunkIds, numbers |-> shape.numbers]

\* The caller's context: the grants of its token, its deadline (as the time
\* remaining), and whether the caller cancelled it.
Ctx(admin, call, hasDeadline, remain) ==
    [admin |-> admin, call |-> call, hasDeadline |-> hasDeadline,
     remain |-> remain, cancelled |-> FALSE]
\* A token grants the admin permission or the call permission.
AdminCtxs == { Ctx(a, ~a, FALSE, 0) : a \in BOOLEAN }
CallCtxs ==
    AdminCtxs \cup { Ctx(a, ~a, TRUE, d) : a \in BOOLEAN, d \in Deadlines }

\* Requests.  trunk is the request's Trunk (or Rule) object, absent when <<>>;
\* id is the ID the request names; regex is a non-empty InboundNumbersRegex.
Req(trunk, id, regex) == [trunk |-> trunk, id |-> id, regex |-> regex]
LegacyTrunkRequests ==
    { Req(<<Trunk(NoID, "legacy", s)>>, NoID, r) : s \in TrunkShapes, r \in BOOLEAN }
TrunkRequests(kind) ==
    { Req(<<>>, NoID, FALSE) }
    \cup { Req(<<Trunk(i, kind, s)>>, NoID, FALSE) :
             i \in {NoID, Guid(SIPTrunkPrefix, 1)}, s \in TrunkShapes }
RuleRequests == { Req(<<Rule(NoID, s)>>, NoID, FALSE) : s \in RuleShapes }
TrunkIDRequests == { Req(<<>>, i, FALSE) : i \in TrunkIDs }
RuleIDRequests == { Req(<<>>, i, FALSE) : i \in RuleIDs }
EmptyRequest == Req(<<>>, NoID, FALSE)

\* -------------------------------------------------------------- validators
\* Two accepted sets overlap when they share an element; an empty
\* (unrestricted) set overlaps with everything.
Overlap(S, T) == S = {} \/ T = {} \/ S \cap T # {}

\* The conflict looked for from the first entry's side only: its
\* unrestricted sets count, the second entry's do not.
TrunksConflictOneWay(a, b) ==
    /\ (a.addrs = {} \/ a.addrs \cap b.addrs # {})
    /\ (a.numbers = {} \/ a.numbers \cap b.numbers # {})

TrunksConflict(a, b) == Overlap(a.addrs, b.addrs) /\ Overlap(a.numbers, b.numbers)
RulesConflict(a, b) == Overlap(a.trunkIds, b.trunkIds) /\ Overlap(a.numbers, b.numbers)

\* printID: the placeholder for an entry that has no ID yet
printID(id) == IF id = NoID THEN <<"<new>">> ELSE id

\* the pairs of entries of the list that conflict with each other
ConflictPairs(list, isRule) ==
    { ij \in (1..Len(list)) \X (1..Len(list)) :
        /\ ij[1] < ij[2]
        /\ IF isRule THEN RulesConflict(list[ij[1]], list[ij[2]])
                     ELSE TrunksConflict(list[ij[1]], list[ij[2]]) }

\* the first conflicting pair in the order the validator scans the list
FirstPair(pairs) ==
    CHOOSE ij \in pairs :
        \A kl \in pairs : ij[2] < kl[2] \/ (ij[2] = kl[2] /\ ij[1] <= kl[1])

ValidationError(list, pairs) ==
    LET ij == FirstPair(pairs) IN
    <<"conflict", printID(list[ij[1]].id), printID(list[ij[2]].id)>>

\* sip.ValidateTrunks: nil, or an error naming the first conflicting pair
ValidateTrunks(list) ==
    LET pairs == ConflictPairs(list, FALSE) IN
    IF pairs = {} THEN NoErr ELSE ValidationError(list, pairs)

\* sip.ValidateDispatchRules
ValidateDispatchRules(list) ==
    LET pairs == ConflictPairs(list, TRUE) IN
    IF pairs = {} THEN NoErr ELSE ValidationError(list, pairs)

\* ------------------------------------------------------------------- state
VARIABLES
    storeNil,   \* s.store == nil
    trunks,     \* the store's trunks (legacy, inbound and outbound)
    rules,      \* the store's dispatch rules
    guids,      \* how many identifiers guid.New / sip.NewCallID have produced
    started,    \* how many requests have been received
    proc,       \* each request handler's state
    audit       \* history: for each stored ID, the list its request validated

vars == <<storeNil, trunks, rules, guids, started, proc, audit>>

NoRpc == [state |-> "none", timeout |-> 0, elapsed |-> 0, calls |-> 0,
          remain |-> 0, parent |-> "none"]
NoRes == [err |-> NoErr, val |-> <<>>]

\* A handler that has not been entered.
Idle ==
    [pc |-> "idle", op |-> "none", ctx |-> Ctx(FALSE, FALSE, FALSE, 0),
     req |-> EmptyRequest, info |-> <<>>, res |-> NoRes, trace |-> <<>>,
     listed |-> <<>>, vinput |-> <<>>, rpc |-> NoRpc,
     arg |-> EmptyRequest, again |-> FALSE]

\* A handler entered with context c and request r; arg keeps the request
\* as the caller passed it.
Enter(o, c, r) ==
    [Idle EXCEPT !.pc = "run", !.op = o, !.ctx = c, !.req = r, !.arg = r]

\* return val, err
Return(st, val, err) == [st EXCEPT !.pc = "done", !.res = [err |-> err, val |-> val]]

\* the handler's calls to its collaborators, in the order it made them
Did(st, event) == [st EXCEPT !.trace = Append(st.trace, event)]

Init ==
    /\ storeNil \in BOOLEAN
    /\ trunks = {}
    /\ rules = {}
    /\ guids = 0
    /\ started = 0
    /\ proc = [p \in Procs |-> Idle]
    /\ audit = <<>>

\* ------------------------------------------------------------------- store
\* All orders in which the store may list a collection.
Perms(S) ==
    { f \in [1..Cardinality(S) -> S] : \A i, j \in 1..Cardinality(S) : f[i] = f[j] => i = j }

\* SIPTrunkInfo.AsInbound / the store's view of a trunk as an inbound trunk
AsInbound(t) == [t EXCEPT !.kind = "inbound"]
AsOutbound(t) == [t EXCEPT !.kind = "outbound"]
AsLegacy(t) == [t EXCEPT !.kind = "legacy"]

\* store.ListSIPInboundTrunk: legacy trunks are listed as inbound trunks
InboundTrunks == { AsInbound(t) : t \in { u \in trunks : u.kind \in {"legacy", "inbound"} } }
\* store.ListSIPOutboundTrunk
OutboundTrunks == { AsOutbound(t) : t \in { u \in trunks : u.kind \in {"legacy", "outbound"} } }
\* store.ListSIPTrunk
LegacyTrunks == { AsLegacy(t) : t \in trunks }

\* store.LoadSIPInboundTrunk / LoadSIPOutboundTrunk / LoadSIPDispatchRule
Load(coll, id) == { t \in coll : t.id = id }


\* -------------------------------------------------------------- collaborators
\* EnsureSIPAdminPermission(ctx), EnsureSIPCallPermission(ctx)
EnsureSIPAdminPermission(c) == IF c.admin THEN NoErr ELSE Err("permission denied")
EnsureSIPCallPermission(c) == IF c.call THEN NoErr ELSE Err("permission denied")

\* how many identifiers the handler has had generated
Allocs(st) == Cardinality({ i \in 1..Len(st.trace) : st.trace[i] \in {"guid", "callid"} })

\* ---------------------------------------------------------------- the guards
\* The first two guards of every trunk and dispatch-rule operation, store
\* check before permission check: the order a slip would give.
AdminGateStoreFirst(c) ==
    IF storeNil THEN ErrSIPNotConnected
    ELSE IF EnsureSIPAdminPermission(c) # NoErr THEN twirpAuthError
    ELSE NoErr

\* The store check left out: only the permission is looked at.
AdminGatePermissionOnly(c) ==
    IF EnsureSIPAdminPermission(c) # NoErr THEN twirpAuthError ELSE NoErr

\* if err := EnsureSIPAdminPermission(ctx); err != nil { return nil, twirpAuthError(err) }
\* if s.store == nil { return nil, ErrSIPNotConnected }
AdminGate(c) ==
    IF EnsureSIPAdminPermission(c) # NoErr THEN twirpAuthError
    ELSE IF storeNil THEN ErrSIPNotConnected
    ELSE NoErr

\* the same two guards in CreateSIPParticipantRequest, on the call permission
CallGate(c) ==
    IF EnsureSIPCallPermission(c) # NoErr THEN twirpAuthError
    ELSE IF storeNil THEN ErrSIPNotConnected
    ELSE NoErr

\* The deprecated field accepted silently.
DeprecatedFieldIgnored(r) == NoErr

\* if len(req.InboundNumbersRegex) != 0 { return nil, fmt.Errorf(...) }
DeprecatedFieldCheck(r) == IF r.regex THEN ErrDeprecatedRegex ELSE NoErr

\* Only the missing trunk checked for: a preset ID let through.
TrunkInputCheckNilOnly(r) == IF r.trunk = <<>> THEN ErrTrunkRequired ELSE NoErr

\* if info == nil {...} else if info.SipTrunkId != "" {...}
TrunkInputCheck(r) ==
    IF r.trunk = <<>> THEN ErrTrunkRequired
    ELSE IF r.trunk[1].id # NoID THEN ErrTrunkIDNotEmpty
    ELSE NoErr

\* ------------------------------------------------- validate, then allocate
\* The candidate left out of the validated list.
ValidatorInputNoAppend(list, info) == list

\* list = append(list, info)
ValidatorInput(list, info) == Append(list, info)

\* The identifier generated before the validator runs.
AllocateThenValidate(st, list, vin, verr, id) ==
    LET s1 == [Did(st, "list") EXCEPT !.listed = list]
        s2 == [Did(s1, "guid") EXCEPT !.info = <<[st.info[1] EXCEPT !.id = id]>>]
        s3 == [Did(s2, "validate") EXCEPT
                 !.vinput = IF vin = list THEN vin
                            ELSE [vin EXCEPT ![Len(vin)] = s2.info[1]]]
    IN  IF verr # NoErr THEN Return(s3, <<>>, verr)
        ELSE [s3 EXCEPT !.pc = "store"]

\* The validator's verdict not looked at.
ValidateIgnored(st, list, vin, verr, id) ==
    LET s1 == [Did(st, "list") EXCEPT !.listed = list]
        s2 == [Did(s1, "validate") EXCEPT !.vinput = vin]
    IN  [Did(s2, "guid") EXCEPT
           !.pc = "store", !.info = <<[st.info[1] EXCEPT !.id = id]>>]

\* The identifier generated but not written into the candidate.
ValidateThenDropID(st, list, vin, verr, id) ==
    LET s1 == [Did(st, "list") EXCEPT !.listed = list]
        s2 == [Did(s1, "validate") EXCEPT !.vinput = vin]
    IN  IF verr # NoErr THEN Return(s2, <<>>, verr)
        ELSE [Did(s2, "guid") EXCEPT !.pc = "store"]

\* The tail of a create's first half, after the store has listed `list`:
\* the validator runs on `vin` and answers `verr`; only then is `id`
\* generated and written into the candidate.
ValidateThenAllocate(st, list, vin, verr, id) ==
    LET s1 == [Did(st, "list") EXCEPT !.listed = list]
        s2 == [Did(s1, "validate") EXCEPT !.vinput = vin]
    IN  IF verr # NoErr THEN Return(s2, <<>>, verr)
        ELSE [Did(s2, "guid") EXCEPT
                !.pc = "store", !.info = <<[st.info[1] EXCEPT !.id = id]>>]

\* The candidate a copy of the request's trunk: the request keeps its empty ID.
NotAliased(st) == st

\* info := req.Trunk: the candidate is the request's own object, so the
\* identifier written into it shows in the request
Aliased(st) == [st EXCEPT !.req.trunk = st.info]

\* The request objects a caller of operation o still holds from its returned
\* requests, as the handler left them.
Held(o) == { proc[q].req : q \in { q \in Procs : proc[q].pc = "done" /\ proc[q].op = o } }

\* What a trunk create may be invoked with: a request built anew, or (again)
\* a request object that an earlier invocation has returned from.
TrunkArgs(o, kind) ==
    { <<r, FALSE>> : r \in TrunkRequests(kind) } \cup { <<r, TRUE>> : r \in Held(o) }

\* A request is received by the first handler that is not running one.
Free == { p \in Procs : proc[p].pc \in {"idle", "done"} }
CanBegin(p) ==
    /\ started < MaxRequests
    /\ p \in Free
    /\ \A q \in Free : p <= q

\* A step of handler p that touches no stored object.
Step(p, st) ==
    /\ proc' = [proc EXCEPT ![p] = st]
    /\ guids' = guids + (Allocs(st) - Allocs(proc[p]))
    /\ UNCHANGED <<storeNil, trunks, rules, audit>>

\* The first step of a request: the handler runs up to its first wait.
Begin(p, st) ==
    /\ proc' = [proc EXCEPT ![p] = st]
    /\ guids' = guids + Allocs(st)
    /\ started' = started + 1

\* ------------------------------------------------------------------ creates
CreateSIPTrunk(p) ==
    /\ CanBegin(p)
    /\ UNCHANGED <<storeNil, trunks, rules, audit>>
    /\ \E c \in AdminCtxs, r \in LegacyTrunkRequests :
         LET st == Enter("CreateSIPTrunk", c, r) IN
         IF AdminGate(c) # NoErr THEN Begin(p, Return(st, <<>>, AdminGate(c)))
         ELSE IF DeprecatedFieldCheck(r) # NoErr
           THEN Begin(p, Return(st, <<>>, DeprecatedFieldCheck(r)))
         ELSE \E ok \in BOOLEAN :
           IF ~ok THEN Begin(p, Return(Did(st, "list"), <<>>, ErrStore))
           ELSE \E list \in Perms(InboundTrunks) :
             LET info == r.trunk[1]
                 vin == ValidatorInput(list, AsInbound(info))
             IN  Begin(p, ValidateThenAllocate([st EXCEPT !.info = <<info>>], list, vin,
                             ValidateTrunks(vin), Guid(SIPTrunkPrefix, guids + 1)))

CreateSIPInboundTrunk(p) ==
    /\ CanBegin(p)
    /\ UNCHANGED <<storeNil, trunks, rules, audit>>
    /\ \E c \in AdminCtxs, a \in TrunkArgs("CreateSIPInboundTrunk", "inbound") :
         LET r == a[1]
             st == [Enter("CreateSIPInboundTrunk", c, r) EXCEPT !.again = a[2]] IN
         IF AdminGate(c) # NoErr THEN Begin(p, Return(st, <<>>, AdminGate(c)))
         ELSE IF TrunkInputCheck(r) # NoErr
           THEN Begin(p, Return(st, <<>>, TrunkInputCheck(r)))
         ELSE \E ok \in BOOLEAN :
           IF ~ok THEN Begin(p, Return(Did(st, "list"), <<>>, ErrStore))
           ELSE \E list \in Perms(InboundTrunks) :
             LET vin == ValidatorInput(list, r.trunk[1])
             IN  Begin(p, Aliased(ValidateThenAllocate([st EXCEPT !.info = r.trunk], list, vin,
                             ValidateTrunks(vin), Guid(SIPTrunkPrefix, guids + 1))))

CreateSIPDispatchRule(p) ==
    /\ CanBegin(p)
    /\ UNCHANGED <<storeNil, trunks, rules, audit>>
    /\ \E c \in AdminCtxs, r \in RuleRequests :
         LET st == Enter("CreateSIPDispatchRule", c, r) IN
         IF AdminGate(c) # NoErr THEN Begin(p, Return(st, <<>>, AdminGate(c)))
         ELSE \E ok \in BOOLEAN :
           IF ~ok THEN Begin(p, Return(Did(st, "list"), <<>>, ErrStore))
           ELSE \E list \in Perms(rules) :
             LET vin == ValidatorInput(list, r.trunk[1])
             IN  Begin(p, ValidateThenAllocate([st EXCEPT !.info = r.trunk], list, vin,
                             ValidateDispatchRules(vin), Guid(SIPDispatchRulePrefix, guids + 1)))

\* s.store.StoreSIPTrunk / StoreSIPInboundTrunk / StoreSIPDispatchRule and the
\* return that follows it: the second half of a create
Persist(p, isRule) ==
    LET st == Did(proc[p], "store")
        info == st.info[1]
    IN  \E ok \in BOOLEAN :
          IF ok
          THEN /\ proc' = [proc EXCEPT ![p] = Return(st, st.info, NoErr)]
               /\ trunks' = IF isRule THEN trunks ELSE (trunks \ Load(trunks, info.id)) \cup {info}
               /\ rules' = IF isRule THEN (rules \ Load(rules, info.id)) \cup {info} ELSE rules
               /\ audit' = (info.id :> st.vinput) @@ audit
               /\ UNCHANGED <<storeNil, guids, started>>
          ELSE /\ proc' = [proc EXCEPT ![p] = Return(st, <<>>, ErrStore)]
               /\ UNCHANGED <<storeNil, trunks, rules, guids, started, audit>>

CreateSIPTrunk_Store(p) ==
    /\ proc[p].pc = "store" /\ proc[p].op = "CreateSIPTrunk"
    /\ Persist(p, FALSE)

CreateSIPInboundTrunk_Store(p) ==
    /\ proc[p].pc = "store" /\ proc[p].op = "CreateSIPInboundTrunk"
    /\ Persist(p, FALSE)

CreateSIPDispatchRule_Store(p) ==
    /\ proc[p].pc = "store" /\ proc[p].op = "CreateSIPDispatchRule"
    /\ Persist(p, TRUE)


\* The outbound create made to list the stored outbound trunks and validate
\* the candidate with them, as the inbound create does.
CreateSIPOutboundTrunkValidated(p) ==
    /\ CanBegin(p)
    /\ UNCHANGED <<storeNil, rules>>
    /\ \E c \in AdminCtxs, a \in TrunkArgs("CreateSIPOutboundTrunk", "outbound") :
         LET r == a[1]
             st == [Enter("CreateSIPOutboundTrunk", c, r) EXCEPT !.again = a[2]] IN
         IF AdminGate(c) # NoErr
           THEN Begin(p, Return(st, <<>>, AdminGate(c))) /\ UNCHANGED <<trunks, audit>>
         ELSE IF TrunkInputCheck(r) # NoErr
           THEN Begin(p, Return(st, <<>>, TrunkInputCheck(r))) /\ UNCHANGED <<trunks, audit>>
         ELSE \E list \in Perms(OutboundTrunks) :
           LET vin == ValidatorInput(list, r.trunk[1])
               s0 == ValidateThenAllocate([st EXCEPT !.info = r.trunk], list, vin,
                         ValidateTrunks(vin), Guid(SIPTrunkPrefix, guids + 1))
               s2 == Did(Aliased(s0), "store")
               info == s2.info[1]
           IN  IF s0.pc = "done" THEN Begin(p, s0) /\ UNCHANGED <<trunks, audit>>
               ELSE \E ok \in BOOLEAN :
                 IF ok
                 THEN /\ Begin(p, Return(s2, s2.info, NoErr))
                      /\ trunks' = (trunks \ Load(trunks, info.id)) \cup {info}
                      /\ audit' = (info.id :> vin) @@ audit
                 ELSE /\ Begin(p, Return(s2, <<>>, ErrStore))
                      /\ UNCHANGED <<trunks, audit>>

\* No additional validation needed for outbound: the identifier is generated
\* and the trunk stored in the same step.
CreateSIPOutboundTrunk(p) ==
    /\ CanBegin(p)
    /\ UNCHANGED <<storeNil, rules>>
    /\ \E c \in AdminCtxs, a \in TrunkArgs("CreateSIPOutboundTrunk", "outbound") :
         LET r == a[1]
             st == [Enter("CreateSIPOutboundTrunk", c, r) EXCEPT !.again = a[2]] IN
         IF AdminGate(c) # NoErr
           THEN Begin(p, Return(st, <<>>, AdminGate(c))) /\ UNCHANGED <<trunks, audit>>
         ELSE IF TrunkInputCheck(r) # NoErr
           THEN Begin(p, Return(st, <<>>, TrunkInputCheck(r))) /\ UNCHANGED <<trunks, audit>>
         ELSE
           LET info == [r.trunk[1] EXCEPT !.id = Guid(SIPTrunkPrefix, guids + 1)]
               s1 == Aliased([Did(st, "guid") EXCEPT !.info = <<info>>])
               s2 == Did(s1, "store")
           IN  \E ok \in BOOLEAN :
                 IF ok
                 THEN /\ Begin(p, Return(s2, s2.info, NoErr))
                      /\ trunks' = (trunks \ Load(trunks, info.id)) \cup {info}
                      /\ audit' = (info.id :> <<>>) @@ audit
                 ELSE /\ Begin(p, Return(s2, <<>>, ErrStore))
                      /\ UNCHANGED <<trunks, audit>>

\* -------------------------------------------------------------- get and list
\* A read of one object: the two guards, then store.Load...(ctx, req.SipTrunkId).
GetOne(p, o, coll) ==
    /\ CanBegin(p)
    /\ UNCHANGED <<storeNil, trunks, rules, audit>>
    /\ \E c \in AdminCtxs, r \in TrunkIDRequests :
         LET st == Enter(o, c, r) IN
         IF AdminGate(c) # NoErr THEN Begin(p, Return(st, <<>>, AdminGate(c)))
         ELSE \E ok \in BOOLEAN :
           IF ~ok THEN Begin(p, Return(Did(st, "load"), <<>>, ErrStore))
           ELSE IF Load(coll, r.id) = {} THEN Begin(p, Return(Did(st, "load"), <<>>, ErrNotFound))
           ELSE \E t \in Load(coll, r.id) : Begin(p, Return(Did(st, "load"), <<t>>, NoErr))

GetSIPInboundTrunk(p) == GetOne(p, "GetSIPInboundTrunk", InboundTrunks)

GetSIPOutboundTrunk(p) == GetOne(p, "GetSIPOutboundTrunk", OutboundTrunks)

\* A listing: the two guards, then store.List...(ctx).
ListAll(p, o, coll) ==
    /\ CanBegin(p)
    /\ UNCHANGED <<storeNil, trunks, rules, audit>>
    /\ \E c \in AdminCtxs :
         LET st == Enter(o, c, EmptyRequest) IN
         IF AdminGate(c) # NoErr THEN Begin(p, Return(st, <<>>, AdminGate(c)))
         ELSE \E ok \in BOOLEAN :
           IF ~ok THEN Begin(p, Return(Did(st, "list"), <<>>, ErrStore))
           ELSE \E list \in Perms(coll) : Begin(p, Return(Did(st, "list"), <<list>>, NoErr))

ListSIPTrunk(p) == ListAll(p, "ListSIPTrunk", LegacyTrunks)

ListSIPInboundTrunk(p) == ListAll(p, "ListSIPInboundTrunk", InboundTrunks)

ListSIPOutboundTrunk(p) == ListAll(p, "ListSIPOutboundTrunk", OutboundTrunks)

ListSIPDispatchRule(p) == ListAll(p, "ListSIPDispatchRule", rules)

\* ------------------------------------------------------------------ deletes
DeleteSIPTrunk(p) ==
    /\ CanBegin(p)
    /\ UNCHANGED <<storeNil, rules, audit>>
    /\ \E c \in AdminCtxs, r \in TrunkIDRequests :
         LET st == Enter("DeleteSIPTrunk", c, r) IN
         IF AdminGate(c) # NoErr
           THEN Begin(p, Return(st, <<>>, AdminGate(c))) /\ UNCHANGED trunks
         ELSE \E ok \in BOOLEAN :
           IF ~ok \/ Load(trunks, r.id) = {}
           THEN /\ Begin(p, Return(Did(st, "delete"), <<>>, IF ok THEN ErrNotFound ELSE ErrStore))
                /\ UNCHANGED trunks
           ELSE /\ Begin(p, Return(Did(st, "delete"), <<[id |-> r.id]>>, NoErr))
                /\ trunks' = trunks \ Load(trunks, r.id)

\* The rule deleted by its ID alone, as DeleteSIPTrunk deletes: nothing loaded.
DeleteSIPDispatchRuleByID(p) ==
    /\ CanBegin(p)
    /\ UNCHANGED <<storeNil, trunks, rules, audit>>
    /\ \E c \in AdminCtxs, r \in RuleIDRequests :
         LET st == Enter("DeleteSIPDispatchRule", c, r) IN
         IF AdminGate(c) # NoErr THEN Begin(p, Return(st, <<>>, AdminGate(c)))
         ELSE Begin(p, [st EXCEPT !.pc = "delete", !.info = <<[id |-> r.id]>>])

\* the two guards, then info, err := s.store.LoadSIPDispatchRule(ctx, req.SipDispatchRuleId)
DeleteSIPDispatchRule(p) ==
    /\ CanBegin(p)
    /\ UNCHANGED <<storeNil, trunks, rules, audit>>
    /\ \E c \in AdminCtxs, r \in RuleIDRequests :
         LET st == Enter("DeleteSIPDispatchRule", c, r) IN
         IF AdminGate(c) # NoErr THEN Begin(p, Return(st, <<>>, AdminGate(c)))
         ELSE \E ok \in BOOLEAN :
           IF ~ok THEN Begin(p, Return(Did(st, "load"), <<>>, ErrStore))
           ELSE IF Load(rules, r.id) = {} THEN Begin(p, Return(Did(st, "load"), <<>>, ErrNotFound))
           ELSE \E t \in Load(rules, r.id) :
                  Begin(p, [Did(st, "load") EXCEPT !.pc = "delete", !.info = <<t>>])

\* if err = s.store.DeleteSIPDispatchRule(ctx, info); err != nil {...}; return info, nil
DeleteSIPDispatchRule_Delete(p) ==
    /\ proc[p].pc = "delete" /\ proc[p].op = "DeleteSIPDispatchRule"
    /\ UNCHANGED <<storeNil, trunks, guids, started, audit>>
    /\ LET st == Did(proc[p], "delete") IN
       \E ok \in BOOLEAN :
         IF ~ok \/ Load(rules, st.info[1].id) = {}
         THEN /\ proc' = [proc EXCEPT ![p] =
                    Return(st, <<>>, IF ok THEN ErrNotFound ELSE ErrStore)]
              /\ UNCHANGED rules
         ELSE /\ proc' = [proc EXCEPT ![p] = Return(st, st.info, NoErr)]
              /\ rules' = rules \ Load(rules, st.info[1].id)


\* ---------------------------------------------------------- the psrpc client
\* Whether the context given to the remote call is done: its deadline has
\* elapsed, or the caller's context it derives from was cancelled.
CallCtxDone(st) ==
    st.rpc.remain <= 0 \/ (st.rpc.parent = "caller" /\ st.ctx.cancelled)

\* s.psrpcClient.CreateSIPParticipant(ctx, "", ireq, psrpc.WithRequestTimeout(timeout)):
\* the errors the call in flight may now return (NoErr: the peer's response)
PsrpcOutcomes(st) ==
    IF CallCtxDone(st) THEN {ErrCtxDone}
    ELSE IF st.rpc.timeout - st.rpc.elapsed <= 0 THEN {ErrRequestTimeout}
    ELSE {NoErr, ErrRemote}

RpcStateOf(err) ==
    IF err = NoErr THEN "ok"
    ELSE IF err = ErrCtxDone THEN "cancelled"
    ELSE IF err = ErrRequestTimeout THEN "timeout"
    ELSE "error"

\* --------------------------------------------------------- CreateSIPParticipant
\* The default applied as a cap on the caller's deadline.
RequestTimeoutCapped(c) ==
    IF c.hasDeadline /\ c.remain < DefaultTimeout THEN c.remain ELSE DefaultTimeout

\* timeout := 30 * time.Second
\* if deadline, ok := ctx.Deadline(); ok { timeout = time.Until(deadline) }
RequestTimeout(c) == IF c.hasDeadline THEN c.remain ELSE DefaultTimeout

\* The remote call made on a context of its own.
CallContextDetached(c, timeout) == [remain |-> timeout, parent |-> "background"]

\* The context given to the remote call: the caller's when it has a
\* deadline, else context.WithTimeout(ctx, timeout).
CallContext(c, timeout) ==
    IF c.hasDeadline THEN [remain |-> c.remain, parent |-> "caller"]
    ELSE [remain |-> timeout, parent |-> "caller"]

\* The call issued again after an error.
NextPcRetry == "dispatch"

\* if err != nil { log.Errorw(...); return nil, err }
NextPcOnRpcError == "done"

\* The trunk's lookup error dropped: the request goes on to the remote call
\* with no trunk.
CreateSIPParticipantUnresolved(p) ==
    /\ CanBegin(p)
    /\ UNCHANGED <<storeNil, trunks, rules, audit>>
    /\ \E c \in CallCtxs, r \in TrunkIDRequests :
         LET st == Enter("CreateSIPParticipant", c, r) IN
         IF CallGate(c) # NoErr THEN Begin(p, Return(st, <<>>, CallGate(c)))
         ELSE
           LET callID == Guid(SIPCallPrefix, guids + 1)
               s1 == Did(Did(st, "callid"), "load")
               found == Load(OutboundTrunks, r.id)
           IN  \E t \in IF found = {} THEN {<<>>} ELSE found :
                 Begin(p, [s1 EXCEPT !.pc = "dispatch",
                                     !.info = <<[callID |-> callID, trunk |-> t]>>])

\* CreateSIPParticipantRequest: the two guards, the call ID, the outbound
\* trunk's load, the internal request
CreateSIPParticipant(p) ==
    /\ CanBegin(p)
    /\ UNCHANGED <<storeNil, trunks, rules, audit>>
    /\ \E c \in CallCtxs, r \in TrunkIDRequests :
         LET st == Enter("CreateSIPParticipant", c, r) IN
         IF CallGate(c) # NoErr THEN Begin(p, Return(st, <<>>, CallGate(c)))
         ELSE
           LET callID == Guid(SIPCallPrefix, guids + 1)
               s1 == Did(Did(st, "callid"), "load")
           IN  \E ok \in BOOLEAN :
                 IF ~ok THEN Begin(p, Return(s1, <<>>, ErrStore))
                 ELSE IF Load(OutboundTrunks, r.id) = {} THEN Begin(p, Return(s1, <<>>, ErrNotFound))
                 ELSE \E t \in Load(OutboundTrunks, r.id), built \in BOOLEAN :
                   IF ~built THEN Begin(p, Return(s1, <<>>, ErrBuild))
                   ELSE Begin(p, [s1 EXCEPT !.pc = "dispatch",
                                            !.info = <<[callID |-> callID, trunk |-> t]>>])

\* the timeout, the call's context, and the remote call issued
CreateSIPParticipant_Dispatch(p) ==
    /\ proc[p].pc = "dispatch"
    /\ UNCHANGED started
    /\ LET st == proc[p]
           timeout == RequestTimeout(st.ctx)
           cc == CallContext(st.ctx, timeout)
       IN  Step(p, [Did(st, "dispatch") EXCEPT
                      !.pc = "wait",
                      !.rpc = [state |-> "inflight", timeout |-> timeout, elapsed |-> 0,
                               calls |-> st.rpc.calls + 1,
                               remain |-> cc.remain, parent |-> cc.parent]])

\* the remote call returns, and the handler with it
CreateSIPParticipant_Return(p) ==
    /\ proc[p].pc = "wait"
    /\ UNCHANGED started
    /\ LET st == proc[p] IN
       \E err \in PsrpcOutcomes(st) :
         LET s1 == [st EXCEPT !.rpc.state = RpcStateOf(err)] IN
         IF err # NoErr
         THEN Step(p, [s1 EXCEPT !.pc = NextPcOnRpcError, !.res = [err |-> err, val |-> <<>>]])
         ELSE Step(p, Return(s1, <<[participant |-> "PA", callID |-> st.info[1].callID]>>, NoErr))

\* ----------------------------------------------------------- the environment
\* The caller cancels the context of its participant request.
CtxCancel(p) ==
    /\ proc[p].pc \in {"dispatch", "wait"}
    /\ ~proc[p].ctx.cancelled
    /\ proc' = [proc EXCEPT ![p].ctx.cancelled = TRUE]
    /\ UNCHANGED <<storeNil, trunks, rules, guids, started, audit>>

Timed == { p \in Procs : proc[p].pc \in {"dispatch", "wait"} }

\* Time passes, by no more than any running timer has left: a call whose
\* context is done or whose timeout has elapsed returns before time moves on.
Tick ==
    /\ \E p \in Timed : proc[p].ctx.hasDeadline \/ proc[p].pc = "wait"
    /\ \E d \in TickAmounts :
         /\ \A p \in Timed :
              /\ proc[p].ctx.hasDeadline => proc[p].ctx.remain >= d
              /\ proc[p].pc = "wait" =>
                   /\ ~CallCtxDone(proc[p])
                   /\ proc[p].rpc.remain >= d
                   /\ proc[p].rpc.timeout - proc[p].rpc.elapsed >= d
         /\ proc' = [p \in Procs |->
              IF p \notin Timed THEN proc[p]
              ELSE LET st == proc[p]
                       s1 == IF st.ctx.hasDeadline
                             THEN [st EXCEPT !.ctx.remain = @ - d] ELSE st
                   IN  IF st.pc = "wait"
                       THEN [s1 EXCEPT !.rpc.elapsed = @ + d, !.rpc.remain = @ - d]
                       ELSE s1]
    /\ UNCHANGED <<storeNil, trunks, rules, guids, started, audit>>

\* ------------------------------------------------------------ specifications
Next ==
    \/ \E p \in Procs : CreateSIPTrunk(p)
    \/ \E p \in Procs : CreateSIPTrunk_Store(p)
    \/ \E p \in Procs : CreateSIPInboundTrunk(p)
    \/ \E p \in Procs : CreateSIPInboundTrunk_Store(p)
    \/ \E p \in Procs : CreateSIPOutboundTrunk(p)
    \/ \E p \in Procs : GetSIPInboundTrunk(p)
    \/ \E p \in Procs : GetSIPOutboundTrunk(p)
    \/ \E p \in Procs : ListSIPTrunk(p)
    \/ \E p \in Procs : ListSIPInboundTrunk(p)
    \/ \E p \in Procs : ListSIPOutboundTrunk(p)
    \/ \E p \in Procs : DeleteSIPTrunk(p)
    \/ \E p \in Procs : CreateSIPDispatchRule(p)
    \/ \E p \in Procs : CreateSIPDispatchRule_Store(p)
    \/ \E p \in Procs : ListSIPDispatchRule(p)
    \/ \E p \in Procs : DeleteSIPDispatchRule(p)
    \/ \E p \in Procs : DeleteSIPDispatchRule_Delete(p)
    \/ \E p \in Procs : CreateSIPParticipant(p)
    \/ \E p \in Procs : CreateSIPParticipant_Dispatch(p)
    \/ \E p \in Procs : CreateSIPParticipant_Return(p)
    \/ \E p \in Procs : CtxCancel(p)
    \/ Tick

\* Requests are handled concurrently, in any interleaving.
Spec == Init /\ [][Next]_vars

\* No two requests overlap: a request is received only when no other is running.
Active == { p \in Procs : proc[p].pc \notin {"idle", "done"} }
OneAtATime == Cardinality(Active) <= 1

NextSeq == Next /\ OneAtATime'

InitSeq == Init /\ ~storeNil

SpecSeq == InitSeq /\ [][NextSeq]_vars


\* --------------------------------------------------- the validator on its own
\* The longest list handed to the validator.
MaxList == 3

\* The lists of inbound trunks the validator may be handed, in any order:
\* stored trunks carry distinct IDs, a candidate carries none.
TrunkLists ==
    LET entries == { Trunk(i, "inbound", s) : i \in {NoID} \cup TrunkIDs, s \in TrunkShapes }
    IN  { l \in UNION { [1..n -> entries] : n \in 0..MaxList } :
            \A i, j \in 1..Len(l) : l[i].id = l[j].id => i = j }

\* sip.ValidateTrunks(list) called on a list, its answer kept
ApplyValidateTrunks ==
    /\ proc[1].pc = "idle"
    /\ \E l \in TrunkLists :
         proc' = [proc EXCEPT ![1] =
                    Return([Did(Enter("ValidateTrunks", Ctx(TRUE, FALSE, FALSE, 0), EmptyRequest),
                                "validate") EXCEPT !.vinput = l],
                           <<>>, ValidateTrunks(l))]
    /\ UNCHANGED <<storeNil, trunks, rules, guids, started, audit>>

NextValidate == ApplyValidateTrunks

SpecValidate == Init /\ [][NextValidate]_vars

\* ------------------------------------------------------------------ claims
ValidatedCreates == {"CreateSIPTrunk", "CreateSIPInboundTrunk", "CreateSIPDispatchRule"}
Creates == ValidatedCreates \cup {"CreateSIPOutboundTrunk"}

IsConflict(err) == err # NoErr /\ err[1] = "conflict"
IsPrefix(s, t) == Len(s) <= Len(t) /\ \A i \in 1..Len(s) : s[i] = t[i]
Has(st, event) == \E i \in 1..Len(st.trace) : st.trace[i] = event
IDsOf(list) == { list[i].id : i \in 1..Len(list) }

\* the permission the operation asks for is granted
Permitted(st) == IF st.op = "CreateSIPParticipant" THEN st.ctx.call ELSE st.ctx.admin

\* the validator of the collection the create writes to
ValidateFor(st, list) ==
    IF st.op = "CreateSIPDispatchRule" THEN ValidateDispatchRules(list) ELSE ValidateTrunks(list)

\* C1: a create (CreateSIPTrunk, CreateSIPInboundTrunk, CreateSIPDispatchRule)
\* whose joint validation fails returns the validation error and nothing
\* else: it has listed and validated only, no identifier was generated, no
\* store write issued, and the step in which it fails leaves the stored
\* collections and the identifier generator as they were.
C1_ValidationFailureWritesNothing ==
    /\ [](\A p \in Procs :
            (proc[p].op \in ValidatedCreates /\ IsConflict(proc[p].res.err)) =>
                /\ proc[p].pc = "done"
                /\ proc[p].res.val = <<>>
                /\ proc[p].trace = <<"list", "validate">>
                /\ proc[p].res.err = ValidateFor(proc[p], proc[p].vinput)
                /\ proc[p].info[1].id = NoID)
    /\ [][\A p \in Procs :
            (proc'[p] # proc[p] /\ proc'[p].op \in ValidatedCreates
               /\ IsConflict(proc'[p].res.err)) =>
                (trunks' = trunks /\ rules' = rules /\ guids' = guids /\ audit' = audit)]_vars

\* C1 witness: an inbound trunk create was rejected by the validator against
\* a stored trunk.
C1_Witness ==
    \E p \in Procs :
        /\ proc[p].op = "CreateSIPInboundTrunk"
        /\ proc[p].pc = "done"
        /\ IsConflict(proc[p].res.err)
        /\ trunks # {}

StoredInbound == { t \in trunks : t.kind \in {"legacy", "inbound"} }

\* C2: the store can come to hold two conflicting inbound trunks (or dispatch
\* rules), and only by the race: each of the two was validated against a
\* list that did not hold the other, and each passed validation on its own.
C2_ConflictOnlyByRace ==
    /\ \A a, b \in StoredInbound :
         (a.id # b.id /\ TrunksConflict(a, b)) =>
             /\ b.id \notin IDsOf(audit[a.id])
             /\ ValidateTrunks(audit[a.id]) = NoErr
             /\ Len(audit[a.id]) >= 1
    /\ \A a, b \in rules :
         (a.id # b.id /\ RulesConflict(a, b)) =>
             /\ b.id \notin IDsOf(audit[a.id])
             /\ ValidateDispatchRules(audit[a.id]) = NoErr
             /\ Len(audit[a.id]) >= 1

\* C2 witness: two CreateSIPInboundTrunk requests have both persisted, and
\* the store holds a pair the validator rejects.
C2_Witness ==
    /\ \E a, b \in trunks :
         a.id # b.id /\ a.kind = "inbound" /\ b.kind = "inbound" /\ TrunksConflict(a, b)
    /\ \A l \in Perms(InboundTrunks) : ValidateTrunks(l) # NoErr
    /\ \A p \in Procs : proc[p].op = "CreateSIPInboundTrunk" /\ proc[p].res.err = NoErr
                          /\ proc[p].pc = "done"

\* C3: when no two requests overlap, the validator accepts the stored inbound
\* trunks and the stored dispatch rules, in every order, in every state.
C3_SequentialStoreValid ==
    /\ \A l \in Perms(InboundTrunks) : ValidateTrunks(l) = NoErr
    /\ \A l \in Perms(rules) : ValidateDispatchRules(l) = NoErr

\* C3 witness: two requests ran one after the other and the store holds two
\* inbound trunks.
C3_Witness ==
    /\ OneAtATime
    /\ Cardinality(InboundTrunks) = 2
    /\ started = 2

\* C4: an operation whose permission check fails returns the authorization
\* error and has done nothing else: no store read or write, no identifier,
\* no remote call, whatever the store's configuration and the request.
C4_PermissionFirst ==
    /\ [](\A p \in Procs :
            (proc[p].op # "none" /\ ~Permitted(proc[p])) =>
                /\ proc[p].pc = "done"
                /\ proc[p].res = [err |-> twirpAuthError, val |-> <<>>]
                /\ proc[p].trace = <<>>
                /\ proc[p].rpc = NoRpc)
    /\ [][\A p \in Procs :
            (proc'[p] # proc[p] /\ proc'[p].op # "none" /\ ~Permitted(proc'[p])) =>
                (trunks' = trunks /\ rules' = rules /\ guids' = guids /\ audit' = audit)]_vars

\* C4 witness: a dispatch rule's delete was refused for want of permission
\* while the rule is stored.
C4_Witness ==
    \E p \in Procs :
        /\ proc[p].op = "DeleteSIPDispatchRule"
        /\ ~proc[p].ctx.admin
        /\ proc[p].res.err = twirpAuthError
        /\ Load(rules, proc[p].req.id) # {}

\* C5 as stated: every create request with a non-empty InboundNumbersRegex
\* fails with the deprecated-field (InvalidInput) error.
C5_AsStated ==
    \A p \in Procs :
        (proc[p].op = "CreateSIPTrunk" /\ proc[p].req.regex) =>
            proc[p].res.err = ErrDeprecatedRegex

\* C5 amended: a CreateSIPTrunk request with a non-empty InboundNumbersRegex
\* fails, and nothing is listed, validated, allocated or persisted for it;
\* the error is the deprecated-field error when the caller is authorized and
\* the store configured (the two guards that come first give theirs).
C5_DeprecatedFieldRejected ==
    \A p \in Procs :
        (proc[p].op = "CreateSIPTrunk" /\ proc[p].req.regex) =>
            /\ proc[p].pc = "done"
            /\ proc[p].res.err # NoErr
            /\ proc[p].res.val = <<>>
            /\ proc[p].trace = <<>>
            /\ proc[p].res.err =
                 IF ~proc[p].ctx.admin THEN twirpAuthError
                 ELSE IF storeNil THEN ErrSIPNotConnected
                 ELSE ErrDeprecatedRegex

\* C5 witness: an authorized request whose other fields are valid (the store
\* holds nothing it conflicts with) was rejected for the deprecated field.
C5_Witness ==
    \E p \in Procs :
        /\ proc[p].op = "CreateSIPTrunk"
        /\ proc[p].req.regex
        /\ proc[p].res.err = ErrDeprecatedRegex
        /\ ValidateTrunks(<<AsInbound(proc[p].req.trunk[1])>>) = NoErr
        /\ trunks = {}


Calls == { p \in Procs : proc[p].op = "CreateSIPParticipant" /\ proc[p].rpc.state # "none" }

\* C6: the timeout given to the remote call is the time remaining until the
\* caller's deadline when the caller's context has one (so the call's
\* timeout runs out when the deadline is reached, also when more than the
\* default remains), and the default 30 only when it has none; the call
\* never runs past that timeout.
C6_TimeoutFromDeadline ==
    \A p \in Calls :
        LET st == proc[p] IN
        /\ st.ctx.hasDeadline => st.rpc.timeout - st.rpc.elapsed = st.ctx.remain
        /\ ~st.ctx.hasDeadline => st.rpc.timeout = DefaultTimeout
        /\ st.rpc.elapsed <= st.rpc.timeout
        /\ st.rpc.remain = st.rpc.timeout - st.rpc.elapsed
        /\ st.rpc.state = "ok" => st.rpc.elapsed < st.rpc.timeout

\* C6 witness: a call was made with more than the default left until the
\* caller's deadline, was given all of it as its timeout, and is in flight
\* past the default.
C6_Witness ==
    \E p \in Calls :
        /\ proc[p].rpc.state = "inflight"
        /\ proc[p].ctx.hasDeadline
        /\ proc[p].rpc.timeout > DefaultTimeout
        /\ proc[p].rpc.elapsed >= DefaultTimeout
        /\ proc[p].ctx.remain > 0

IsCall(p) == proc[p].op = "CreateSIPParticipant"

\* The request passed the permission check, the store check and the
\* outbound trunk's lookup.
PassedLookup(st) ==
    /\ st.op = "CreateSIPParticipant"
    /\ st.ctx.call /\ ~storeNil
    /\ Has(st, "load")
    /\ st.res.err \notin {ErrStore, ErrNotFound}

\* C7 as stated: every CreateSIPParticipant request that passed the
\* permission check, the store check and the outbound trunk's lookup has
\* issued exactly one remote call when it returns.
C7_AsStated ==
    \A p \in Procs :
        (PassedLookup(proc[p]) /\ proc[p].pc = "done") => proc[p].rpc.calls = 1

\* C7 amended: a CreateSIPParticipant request never issues more than one
\* remote call; it has issued exactly one when it returns after its
\* internal request was built (permission, store check, trunk lookup and
\* rpc.NewCreateSIPParticipantRequest all succeeded), and none when it
\* returns without; a call that timed out or failed gives the caller that
\* error and no participant info.
C7_ExactlyOneDispatch ==
    \A p \in Procs :
        LET st == proc[p] IN
        IsCall(p) =>
            /\ st.rpc.calls <= 1
            /\ st.rpc.calls = IF Has(st, "dispatch") THEN 1 ELSE 0
            /\ (st.pc = "done" /\ st.info # <<>>) => st.rpc.calls = 1
            /\ (st.pc = "done" /\ st.info = <<>>) => (st.rpc.calls = 0 /\ st.res.err # NoErr)
            /\ st.rpc.state \in {"error", "timeout", "cancelled"} =>
                 /\ st.pc = "done"
                 /\ st.res.val = <<>>
                 /\ st.res.err # NoErr
                 /\ RpcStateOf(st.res.err) = st.rpc.state

\* C7 witness: the one remote call of a request returned an error, and the
\* request returned it.
C7_Witness ==
    \E p \in Procs :
        /\ IsCall(p)
        /\ proc[p].pc = "done"
        /\ proc[p].rpc.state = "error"
        /\ proc[p].res.err = ErrRemote
        /\ proc[p].rpc.calls = 1

CreateSteps == <<"list", "validate", "guid", "store">>

\* C8 as stated: every create request that succeeds has fetched the
\* existing set, validated, allocated and persisted, in this order.
C8_AsStated ==
    \A p \in Procs :
        (proc[p].op \in Creates /\ proc[p].pc = "done" /\ proc[p].res.err = NoErr) =>
            proc[p].trace = CreateSteps

\* C8 amended: CreateSIPTrunk, CreateSIPInboundTrunk and
\* CreateSIPDispatchRule perform list, validate (over the listed set with
\* the candidate appended), allocate, persist in this order, each at most
\* once and all four when they succeed, and no identifier or write comes
\* before the validator's acceptance; they return the object they stored.
\* CreateSIPOutboundTrunk lists and validates nothing: it allocates,
\* persists and returns.
C8_CreateStepOrder ==
    \A p \in Procs :
        LET st == proc[p] IN
        /\ st.op \in ValidatedCreates =>
             /\ IsPrefix(st.trace, CreateSteps)
             /\ Has(st, "guid") =>
                  /\ st.vinput = Append(st.listed, st.vinput[Len(st.vinput)])
                  /\ ValidateFor(st, st.vinput) = NoErr
             /\ (st.pc = "done" /\ st.res.err = NoErr) =>
                  /\ st.trace = CreateSteps
                  /\ st.res.val = st.info
                  /\ st.info[1].id = Guid(IF st.op = "CreateSIPDispatchRule"
                                          THEN SIPDispatchRulePrefix ELSE SIPTrunkPrefix,
                                          st.info[1].id[2])
                  /\ audit[st.info[1].id] = st.vinput
        /\ st.op = "CreateSIPOutboundTrunk" =>
             /\ st.trace \in {<<>>, <<"guid", "store">>}
             /\ (st.pc = "done" /\ st.res.err = NoErr) =>
                  (st.trace = <<"guid", "store">> /\ st.res.val = st.info)

\* C8 witness: an inbound trunk create succeeded against a store that held
\* a trunk already.
C8_Witness ==
    \E p \in Procs :
        /\ proc[p].op = "CreateSIPInboundTrunk"
        /\ proc[p].pc = "done"
        /\ proc[p].res.err = NoErr
        /\ Len(proc[p].listed) = 1
        /\ proc[p].info[1] \in trunks

\* C9: whenever a create has invoked the validator, the validator's input is
\* the store's list followed by the one candidate, the candidate's ID is
\* empty and every listed element's is not; a validation error names listed
\* IDs or the placeholder "<new>", never an empty ID, and names the
\* candidate "<new>" when the listed entries do not conflict among
\* themselves; and the identifier the request is given later is not in the
\* validator's input.
C9_ValidatorSeesNoNewID ==
    \A p \in Procs :
        LET st == proc[p]
            n == Len(st.vinput)
        IN  (st.op \in ValidatedCreates /\ Has(st, "validate")) =>
              /\ n = Len(st.listed) + 1
              /\ SubSeq(st.vinput, 1, n - 1) = st.listed
              /\ st.vinput[n].id = NoID
              /\ \A i \in 1..(n - 1) : st.vinput[i].id # NoID
              /\ IsConflict(st.res.err) =>
                   /\ {st.res.err[2], st.res.err[3]} \subseteq IDsOf(st.listed) \cup {<<"<new>">>}
                   /\ ValidateFor(st, st.listed) = NoErr =>
                        (st.res.err[3] = <<"<new>">> /\ st.res.err[2] \in IDsOf(st.listed))
              /\ Has(st, "guid") => st.info[1].id \notin IDsOf(st.vinput)

\* C9 witness: the validator rejected a candidate against a listed trunk and
\* named it "<new>".
C9_Witness ==
    \E p \in Procs :
        /\ proc[p].op = "CreateSIPTrunk"
        /\ Has(proc[p], "validate")
        /\ Len(proc[p].listed) = 1
        /\ IsConflict(proc[p].res.err)
        /\ proc[p].res.err[2] = proc[p].listed[1].id
        /\ proc[p].res.err[3] = <<"<new>">>

\* the caller's context is cancelled or past its deadline
CallerCtxDone(st) == st.ctx.cancelled \/ (st.ctx.hasDeadline /\ st.ctx.remain <= 0)

\* C10: a remote call in flight when the caller's context is cancelled or
\* its deadline elapses returns cancelled, and CreateSIPParticipant returns
\* an error and no participant; once CreateSIPParticipant has returned, no
\* remote call of its is in flight.
C10_CancellationReachesCall ==
    /\ [](\A p \in Procs : proc[p].pc \in {"idle", "done"} => proc[p].rpc.state # "inflight")
    /\ [][\A p \in Procs :
            (proc[p].pc = "wait" /\ CallerCtxDone(proc[p]) /\ proc'[p].pc # "wait") =>
                /\ proc'[p].pc = "done"
                /\ proc'[p].rpc.state = "cancelled"
                /\ proc'[p].res = [err |-> ErrCtxDone, val |-> <<>>]]_vars

\* C10 witness: the caller cancelled its context while the call was in
\* flight, before its deadline, and the request returned the error.
C10_Witness ==
    \E p \in Procs :
        /\ IsCall(p)
        /\ proc[p].pc = "done"
        /\ proc[p].ctx.cancelled
        /\ proc[p].ctx.hasDeadline /\ proc[p].ctx.remain > 0
        /\ proc[p].rpc.state = "cancelled"
        /\ proc[p].rpc.elapsed > 0

\* the request passes the two input checks of the inbound and outbound creates
AcceptedTrunkInput(st) == st.arg.trunk # <<>> /\ st.arg.trunk[1].id = NoID

\* C11: CreateSIPOutboundTrunk never lists and never validates. Whatever the
\* store holds, an authorized request with a trunk whose ID is empty, on a
\* configured store, generates an identifier and writes: it returns the
\* trunk with that identifier when the write succeeds and the store's error
\* when it fails, and nothing else; the step of a success adds the returned
\* trunk to the store, the step of a failed write leaves the store as it was.
C11_OutboundNeverValidates ==
    /\ [](\A p \in Procs : proc[p].op = "CreateSIPOutboundTrunk" =>
            /\ ~Has(proc[p], "list") /\ ~Has(proc[p], "validate")
            /\ proc[p].listed = <<>> /\ proc[p].vinput = <<>>
            /\ (Permitted(proc[p]) /\ ~storeNil /\ AcceptedTrunkInput(proc[p])) =>
                 /\ proc[p].pc = "done"
                 /\ proc[p].trace = <<"guid", "store">>
                 /\ proc[p].res.err \in {NoErr, ErrStore}
                 /\ proc[p].res.err = NoErr =>
                      /\ proc[p].res.val = proc[p].info
                      /\ proc[p].info[1].id # NoID
                      /\ proc[p].info[1] =
                           [proc[p].arg.trunk[1] EXCEPT !.id = proc[p].info[1].id])
    /\ [][\A p \in Procs :
            (proc'[p] # proc[p] /\ proc'[p].op = "CreateSIPOutboundTrunk") =>
                /\ proc'[p].res.err = NoErr => trunks' = trunks \cup {proc'[p].res.val[1]}
                /\ proc'[p].res.err # NoErr => trunks' = trunks]_vars

\* C11 witness: an outbound create succeeded although the store already held
\* an outbound trunk with the same numbers and the same address, a pair the
\* trunk validator rejects.
C11_Witness ==
    \E p \in Procs :
        /\ proc[p].op = "CreateSIPOutboundTrunk"
        /\ proc[p].pc = "done"
        /\ proc[p].res.err = NoErr
        /\ \E t \in trunks :
             /\ t.kind = "outbound"
             /\ t.id # proc[p].info[1].id
             /\ t.id[2] < proc[p].info[1].id[2]
             /\ t.numbers = proc[p].info[1].numbers
             /\ t.addrs = proc[p].info[1].addrs
             /\ ValidateTrunks(<<t, proc[p].info[1]>>) # NoErr

TrunkCreates == {"CreateSIPInboundTrunk", "CreateSIPOutboundTrunk"}

\* C12 as stated: every inbound or outbound trunk create whose trunk is
\* missing or carries an ID returns one of the two InvalidInput errors.
C12_AsStated ==
    \A p \in Procs :
        (proc[p].op \in TrunkCreates /\ ~AcceptedTrunkInput(proc[p])) =>
            /\ proc[p].res.err \in {ErrTrunkRequired, ErrTrunkIDNotEmpty}
            /\ proc[p].trace = <<>>

\* C12: an inbound or outbound trunk create whose trunk is missing or whose
\* trunk ID is not empty is always rejected, with no store read, no
\* validation, no identifier generated and no store write: the collections,
\* the identifier generator and the request object stay as they were. The
\* error is the InvalidInput error of the failed check ("trunk is required",
\* "trunk ID must be empty") when the caller is authorized and the store is
\* configured; otherwise it is the error of the guard that comes first.
C12_InvalidTrunkRejected ==
    /\ [](\A p \in Procs :
            (proc[p].op \in TrunkCreates /\ ~AcceptedTrunkInput(proc[p])) =>
                /\ proc[p].pc = "done"
                /\ proc[p].res.val = <<>>
                /\ proc[p].trace = <<>>
                /\ proc[p].listed = <<>> /\ proc[p].vinput = <<>>
                /\ proc[p].info = <<>>
                /\ proc[p].req = proc[p].arg
                /\ proc[p].res.err =
                     IF ~proc[p].ctx.admin THEN twirpAuthError
                     ELSE IF storeNil THEN ErrSIPNotConnected
                     ELSE IF proc[p].arg.trunk = <<>> THEN ErrTrunkRequired
                     ELSE ErrTrunkIDNotEmpty)
    /\ [][\A p \in Procs :
            (proc'[p] # proc[p] /\ proc'[p].op \in TrunkCreates
               /\ ~AcceptedTrunkInput(proc'[p])) =>
                (trunks' = trunks /\ rules' = rules /\ guids' = guids /\ audit' = audit)]_vars

\* C12 witness: on a configured store that holds a trunk, an authorized
\* outbound create whose trunk carries an ID was rejected with "trunk ID
\* must be empty", and the store is as the earlier create left it.
C12_Witness ==
    /\ ~storeNil
    /\ Cardinality(trunks) = 1
    /\ \E q \in Procs :
         /\ proc[q].op = "CreateSIPOutboundTrunk" /\ proc[q].ctx.admin
         /\ ~proc[q].again
         /\ proc[q].arg.trunk # <<>> /\ proc[q].arg.trunk[1].id # NoID
         /\ proc[q].res.err = ErrTrunkIDNotEmpty

IsDelete(st) == st.op = "DeleteSIPDispatchRule"

\* C13: DeleteSIPDispatchRule loads the rule by the request's ID before it
\* deletes. Its store calls are a load, then at most one delete. When the
\* load fails (unknown ID, or the store's error) it returns that error with
\* no delete issued and the store unchanged. When the load succeeds, the
\* delete is issued with the object the store held under that ID, and a
\* successful delete removes it and returns that loaded object.
C13_LoadBeforeDelete ==
    /\ [](\A p \in Procs : IsDelete(proc[p]) =>
            /\ IsPrefix(proc[p].trace, <<"load", "delete">>)
            /\ proc[p].pc \in {"delete", "done"}
            /\ proc[p].pc = "delete" => proc[p].trace = <<"load">>
            /\ (proc[p].pc = "done" /\ proc[p].trace = <<"load">>) =>
                 /\ proc[p].res.err \in {ErrNotFound, ErrStore}
                 /\ proc[p].res.val = <<>>
                 /\ proc[p].info = <<>>
            /\ Has(proc[p], "load") /\ proc[p].info # <<>> =>
                 /\ proc[p].info[1] \in { Rule(proc[p].req.id, s) : s \in RuleShapes }
                 /\ proc[p].info[1].id \in DOMAIN audit
            /\ Has(proc[p], "delete") => proc[p].info # <<>>
            /\ (proc[p].pc = "done" /\ proc[p].res.err = NoErr) =>
                 /\ proc[p].trace = <<"load", "delete">>
                 /\ proc[p].res.val = proc[p].info)
    /\ [][\A p \in Procs : (proc'[p] # proc[p] /\ IsDelete(proc'[p])) =>
            /\ proc'[p].trace = <<"load">> =>
                 /\ rules' = rules /\ trunks' = trunks
                 /\ proc'[p].pc = "delete" => proc'[p].info[1] \in rules
                 /\ (Permitted(proc'[p]) /\ Load(rules, proc'[p].req.id) = {}) =>
                      proc'[p].pc = "done"
            /\ proc'[p].trace = <<"load", "delete">> =>
                 /\ trunks' = trunks
                 /\ proc'[p].res.err = NoErr =>
                      /\ proc[p].info[1] \in rules
                      /\ rules' = rules \ {proc[p].info[1]}
                 /\ proc'[p].res.err # NoErr => rules' = rules]_vars

\* C13 witness: a stored dispatch rule was loaded, deleted, and returned.
C13_Witness ==
    \E p \in Procs :
        /\ IsDelete(proc[p])
        /\ proc[p].pc = "done"
        /\ proc[p].res.err = NoErr
        /\ proc[p].trace = <<"load", "delete">>
        /\ proc[p].res.val[1] \in { Rule(proc[p].req.id, s) : s \in RuleShapes }
        /\ proc[p].res.val[1].id \in DOMAIN audit
        /\ rules = {}

\* C14: a CreateSIPParticipant request whose outbound trunk the store does
\* not resolve fails with the store's error for the lookup (not found, or
\* the store's own failure), returns no participant, and no remote call is
\* ever issued for it; a remote call is issued only with a trunk that the
\* store held under the requested ID.
C14_UnresolvedTrunkNoDispatch ==
    /\ [](\A p \in Procs : IsCall(p) =>
            /\ proc[p].res.err \in {ErrNotFound, ErrStore} =>
                 /\ proc[p].pc = "done"
                 /\ proc[p].trace = <<"callid", "load">>
                 /\ proc[p].res.val = <<>>
                 /\ proc[p].info = <<>>
                 /\ proc[p].rpc = NoRpc
            /\ (Has(proc[p], "dispatch") \/ proc[p].pc = "dispatch") =>
                 /\ proc[p].info # <<>>
                 /\ proc[p].info[1].trunk \in
                      { Trunk(proc[p].req.id, "outbound", s) : s \in TrunkShapes })
    /\ [][\A p \in Procs :
            (started' # started /\ proc'[p] # proc[p] /\ IsCall(p)'
               /\ proc'[p].trace = <<"callid", "load">>) =>
                /\ Load(OutboundTrunks, proc'[p].req.id) = {} =>
                     /\ proc'[p].pc = "done"
                     /\ proc'[p].res.err \in {ErrNotFound, ErrStore}
                /\ proc'[p].pc = "dispatch" =>
                     proc'[p].info[1].trunk \in Load(OutboundTrunks, proc'[p].req.id)]_vars

\* C14 witness: a permitted participant request named a trunk ID that the
\* store, holding another outbound trunk, does not hold; it returned not
\* found and issued no remote call.
C14_Witness ==
    \E p \in Procs :
        /\ IsCall(p)
        /\ proc[p].pc = "done"
        /\ proc[p].res.err = ErrNotFound
        /\ OutboundTrunks # {}
        /\ Load(OutboundTrunks, proc[p].req.id) = {}
        /\ proc[p].rpc.calls = 0
        /\ ~Has(proc[p], "dispatch")

\* the list l in the order f
Reorder(l, f) == [i \in 1..Len(l) |-> l[f[i]]]

\* C15: the trunk validator's verdict does not depend on the order of the
\* entries: a list is accepted exactly when each of its reorderings is, so
\* [A, B] and [B, A] get the same verdict, wherever the candidate stands and
\* in whatever order the stored trunks are listed.
C15_VerdictOrderIndependent ==
    \A p \in Procs : proc[p].op = "ValidateTrunks" =>
        \A f \in Perms(1..Len(proc[p].vinput)) :
            (ValidateTrunks(Reorder(proc[p].vinput, f)) = NoErr) <=> (proc[p].res.err = NoErr)

\* C15 witness: a list of a candidate and two stored trunks was rejected, and
\* a reordering of it (the candidate no longer last) is rejected with an
\* error that names another pair.
C15_Witness ==
    \E p \in Procs :
        /\ proc[p].op = "ValidateTrunks"
        /\ Len(proc[p].vinput) = 3
        /\ proc[p].vinput[3].id = NoID
        /\ IsConflict(proc[p].res.err)
        /\ \E f \in Perms(1..3) :
             /\ f[3] # 3
             /\ IsConflict(ValidateTrunks(Reorder(proc[p].vinput, f)))
             /\ ValidateTrunks(Reorder(proc[p].vinput, f)) # proc[p].res.err

Stored == trunks \cup rules

\* C16: with an identifier generator that never repeats, in every
\* interleaving of create requests of every kind: each stored trunk and
\* dispatch rule has a non-empty ID, no two stored objects share an ID, a
\* create that succeeded returns the object it wrote, and the step of a
\* successful write adds exactly the returned object, under an ID that no
\* stored object had.
C16_StoredIDsUnique ==
    /\ [](/\ \A t \in Stored : t.id # NoID /\ t.id[2] \in 1..guids
          /\ \A a, b \in Stored : a.id = b.id => a = b
          /\ \A p \in Procs :
               (proc[p].op \in Creates /\ proc[p].pc = "done" /\ proc[p].res.err = NoErr) =>
                   /\ proc[p].res.val = proc[p].info
                   /\ proc[p].res.val[1].id # NoID
                   /\ proc[p].res.val[1].id \in DOMAIN audit)
    /\ [][\A p \in Procs :
            (proc'[p] # proc[p] /\ proc'[p].op \in Creates /\ proc'[p].pc = "done"
               /\ proc'[p].res.err = NoErr) =>
                /\ proc'[p].res.val[1] \notin Stored
                /\ \A t \in Stored : t.id # proc'[p].res.val[1].id
                /\ Stored' = Stored \cup {proc'[p].res.val[1]}]_vars

\* C16 witness: an inbound and an outbound trunk create ran at the same time
\* and both succeeded; each returned the trunk stored under its ID, and the
\* two IDs differ.
C16_Witness ==
    \E p, q \in Procs :
        /\ proc[p].op = "CreateSIPInboundTrunk" /\ proc[q].op = "CreateSIPOutboundTrunk"
        /\ proc[p].pc = "done" /\ proc[q].pc = "done"
        /\ proc[p].res.err = NoErr /\ proc[q].res.err = NoErr
        /\ proc[p].res.val[1].id # proc[q].res.val[1].id
        /\ trunks = {proc[p].res.val[1], proc[q].res.val[1]}

InputErrors == {ErrTrunkRequired, ErrTrunkIDNotEmpty, ErrDeprecatedRegex}

\* the request passes the input checks of its operation
InputOK(st) ==
    IF st.op \in TrunkCreates THEN AcceptedTrunkInput(st)
    ELSE IF st.op = "CreateSIPTrunk" THEN ~st.arg.regex
    ELSE TRUE

\* C17: every operation checks the permission first, then that the store
\* is configured, then the request's input, and only then goes to the store.
\* A permitted request on an unconfigured store returns ErrSIPNotConnected,
\* whether or not its input is valid, with no collaborator called: no
\* identifier, no call ID, no remote call, the request object untouched. An
\* input error is returned only to a permitted caller on a configured
\* store, and a collaborator is called only after all the checks passed.
C17_GuardOrder ==
    \A p \in Procs : proc[p].op # "none" =>
        /\ ~Permitted(proc[p]) => proc[p].res.err = twirpAuthError
        /\ (Permitted(proc[p]) /\ storeNil) =>
             /\ proc[p].pc = "done"
             /\ proc[p].res = [err |-> ErrSIPNotConnected, val |-> <<>>]
             /\ proc[p].trace = <<>>
             /\ proc[p].info = <<>>
             /\ proc[p].rpc = NoRpc
             /\ proc[p].req = proc[p].arg
             /\ guids = 0
        /\ proc[p].res.err \in InputErrors =>
             /\ Permitted(proc[p]) /\ ~storeNil /\ ~InputOK(proc[p])
             /\ proc[p].trace = <<>>
        /\ proc[p].trace # <<>> =>
             Permitted(proc[p]) /\ ~storeNil /\ InputOK(proc[p])

\* C17 witness: the store is not configured; a permitted CreateSIPInboundTrunk
\* request without a trunk returned ErrSIPNotConnected, not "trunk info is
\* required", and nothing was generated.
C17_Witness ==
    /\ storeNil
    /\ guids = 0
    /\ \E p \in Procs :
         /\ proc[p].op = "CreateSIPInboundTrunk"
         /\ proc[p].ctx.admin
         /\ proc[p].arg.trunk = <<>>
         /\ proc[p].res.err = ErrSIPNotConnected
         /\ proc[p].trace = <<>>

\* the request's store write failed after its identifier was generated
WriteFailed(st) ==
    /\ st.pc = "done" /\ st.res.err = ErrStore
    /\ Has(st, "guid") /\ Has(st, "store")

\* C18: CreateSIPInboundTrunk and CreateSIPOutboundTrunk write the generated
\* ID into the caller's request object, before the store write. When the
\* write fails the request returns the store's error and nothing is stored
\* under that ID, but the request object holds it: the same operation
\* invoked again with that object by a permitted caller is rejected with
\* "trunk ID must be empty" and calls no collaborator. CreateSIPTrunk and
\* CreateSIPDispatchRule leave the request object as the caller passed it.
C18_RequestKeepsGeneratedID ==
    /\ [](\A p \in Procs :
            /\ (proc[p].op \in TrunkCreates /\ Has(proc[p], "guid")) =>
                 /\ proc[p].arg.trunk[1].id = NoID
                 /\ proc[p].req.trunk = proc[p].info
                 /\ proc[p].req.trunk[1].id # NoID
                 /\ proc[p].req.trunk[1] =
                      [proc[p].arg.trunk[1] EXCEPT !.id = proc[p].req.trunk[1].id]
            /\ (proc[p].op \in TrunkCreates /\ WriteFailed(proc[p])) =>
                 /\ proc[p].res.val = <<>>
                 /\ \A t \in Stored : t.id # proc[p].req.trunk[1].id
                 /\ proc[p].req.trunk[1].id \notin DOMAIN audit
                 /\ TrunkInputCheck(proc[p].req) = ErrTrunkIDNotEmpty
            /\ proc[p].op \in {"CreateSIPTrunk", "CreateSIPDispatchRule"} =>
                 /\ proc[p].req = proc[p].arg
                 /\ proc[p].req.trunk[1].id = NoID)
    /\ [][\A p, q \in Procs :
            (/\ started' # started /\ proc'[p] # proc[p]
             /\ proc'[p].op \in TrunkCreates /\ proc'[p].again
             /\ proc[q].op = proc'[p].op /\ WriteFailed(proc[q])
             /\ proc'[p].arg = proc[q].req
             /\ Permitted(proc'[p])) =>
                /\ proc'[p].pc = "done"
                /\ proc'[p].res = [err |-> ErrTrunkIDNotEmpty, val |-> <<>>]
                /\ proc'[p].trace = <<>>
                /\ trunks' = trunks /\ guids' = guids /\ audit' = audit]_vars

\* C18 witness: an inbound trunk create was invoked again with the request
\* object of a create whose store write had failed; the object carries the
\* ID generated then, which the store does not hold, and the request was
\* rejected with "trunk ID must be empty".
C18_Witness ==
    \E p \in Procs :
        /\ proc[p].op = "CreateSIPInboundTrunk"
        /\ proc[p].again
        /\ proc[p].ctx.admin
        /\ proc[p].res.err = ErrTrunkIDNotEmpty
        /\ proc[p].trace = <<>>
        /\ started = 2 /\ guids = 1
        /\ proc[p].arg.trunk[1].id = Guid(SIPTrunkPrefix, 1)
        /\ Stored = {}
        /\ audit = <<>>

====
